---- MODULE Spec2Model ----
(***************************************************************************)
(* Model of plugins/modules/mongodb_oplog.py: one invocation of main() is  *)
(* a run that walks through the remote calls of the module; the replica    *)
(* set member (maxSize of local.oplog.rs, replication role) persists       *)
(* between runs.                                                           *)
(***************************************************************************)
EXTENDS Integers, Sequences, FiniteSets, TLC

\* Bounds of the model.
MaxSizeMB == 2
MaxRuns == 2

\* Values a task can give to oplog_size_mb (type int, no further validation).
SizeArgs == 0..MaxSizeMB

\* maxSize values (bytes) the member can report: every half megabyte.
NodeSizes == {k * (512 * 1024) : k \in 0..(2 * MaxSizeMB)}

\* member_state() results.
Roles == {"PRIMARY", "SECONDARY", "ARBITER"}

\* to_native(excep) of a failing remote call.
Causes == {"OperationFailure", "ConnectionFailure"}

None == "None"

VARIABLES
    oplog_size_mb,      \* module.params['oplog_size_mb']
    compact,            \* module.params['compact']
    check_mode,         \* module.check_mode
    arg_login_user,     \* module.params['login_user']: None or a user name
    arg_login_password, \* module.params['login_password']: None or a password
    mongocnf_creds,     \* what load_mongocnf() returns on this host
    login_user,         \* local of main, starts as the parameter
    login_password,     \* local of main, starts as the parameter
    maxSize,            \* the member: collStats(oplog.rs).maxSize in bytes
    role,               \* the member: its replication role
    pc,                 \* position of main
    current_oplog_size, \* local of main (a rational num/den), Unbound before line 206
    state,              \* local of main, "Unbound" before line 214
    result,             \* local of main: the result dict
    calls,              \* collaborator calls issued by this run, in order
    exited,             \* results passed to module.exit_json by this run
    failed,             \* messages passed to module.fail_json by this run
    run,                \* number of the current run
    initialSize,        \* maxSize of the member when the current run started
    prev                \* summary of the previous run, NoRun before the second

vars == <<oplog_size_mb, compact, check_mode, arg_login_user,
          arg_login_password, mongocnf_creds, login_user, login_password,
          maxSize, role, pc, current_oplog_size, state, result, calls,
          exited, failed, run, initialSize, prev>>

params == <<oplog_size_mb, compact, arg_login_user, arg_login_password,
            mongocnf_creds, login_user, login_password>>
member == <<maxSize, role>>
locals == <<current_oplog_size, state, result>>
history == <<run, initialSize, prev>>

Unbound == [num |-> -1, den |-> 1]
NoRun == [run |-> 0]

------------------------------------------------------------------------------
\* Pure parts of the module.

\* int(maxSize) / 1024 / 1024 under true division: the exact quotient.
get_olplog_size(bytes) == [num |-> bytes, den |-> 1024 * 1024]

\* Slip: the size in bytes is divided by 1024 only once before the comparison.
SizeIsCurrent_Kilobytes(size_mb, cur) == size_mb * 1024 = cur.num

\* oplog_size_mb == current_oplog_size (line 209).
SizeIsCurrent(size_mb, cur) == size_mb * cur.den = cur.num

\* current_oplog_size > oplog_size_mb (line 233).
IsShrinking(cur, size_mb) == cur.num > size_mb * cur.den

\* Slip: every member that is not the primary counts as compactable.
CheckModeCompacted_NotPrimary(st, cmp) == st # "PRIMARY" /\ cmp

\* state == "SECONDARY" and compact (line 221).
CheckModeCompacted(st, cmp) == st = "SECONDARY" /\ cmp

\* Slip: the direction of the resize is not looked at.
ShouldCompact_AnyDirection(st, cmp, cur, size_mb) == st = "SECONDARY" /\ cmp

\* state == "SECONDARY" and compact and current_oplog_size > oplog_size_mb (line 233).
ShouldCompact(st, cmp, cur, size_mb) ==
    st = "SECONDARY" /\ cmp /\ IsShrinking(cur, size_mb)

\* round(x, 0) of a non-negative quotient: a tie goes to the even neighbour
\* under Python 3 and away from zero under Python 2.
RoundOutcomes(x) ==
    LET fl == x.num \div x.den
        twice == 2 * (x.num % x.den)
    IN  IF twice < x.den THEN {fl}
        ELSE IF twice > x.den THEN {fl + 1}
        ELSE {fl + 1, IF fl % 2 = 0 THEN fl ELSE fl + 1}

\* result[key] = value
SetItem(d, key, value) ==
    [k \in DOMAIN d \cup {key} |-> IF k = key THEN value ELSE d[k]]

AlreadyMsg(size_mb) ==
    [fmt |-> "oplog_size_mb is already {0} mb", args |-> <<size_mb>>]

ResizedMsg(from, to) ==
    [fmt |-> "oplog has been resized from {0} mb to {1} mb", args |-> <<from, to>>]

\* the member after a successful replSetResizeOplog with size = size_mb
set_oplog_size(size_mb) == size_mb * 1024 * 1024

------------------------------------------------------------------------------
\* Ends of a run.

\* An entry of the call log: the operation and whether it raised.
Returned(op) == [op |-> op, raised |-> FALSE]
Raised(op) == [op |-> op, raised |-> TRUE]

\* Slip: fail_json reports the failure and returns to its caller, so main
\* runs on to exit_json.
FailJson_Returns(msg) ==
    /\ failed' = Append(failed, [msg |-> msg, at |-> Len(calls')])
    /\ pc' = "exit"

\* module.fail_json(msg=...): emits the failure and exits the process.
FailJson(msg) ==
    /\ failed' = Append(failed, [msg |-> msg, at |-> Len(calls')])
    /\ pc' = "done"

\* module.exit_json(**result)
ExitJson ==
    /\ pc = "exit"
    /\ exited' = Append(exited, [result |-> result, at |-> Len(calls)])
    /\ pc' = "done"
    /\ UNCHANGED <<params, check_mode, member, locals, calls, failed, history>>

------------------------------------------------------------------------------
Init ==
    /\ oplog_size_mb \in SizeArgs
    /\ compact \in BOOLEAN
    /\ check_mode \in BOOLEAN
    /\ arg_login_user \in {None, "user"}
    /\ arg_login_password \in {None, "password"}
    /\ mongocnf_creds \in {"False", "creds"}
    /\ login_user = arg_login_user
    /\ login_password = arg_login_password
    /\ maxSize \in NodeSizes
    /\ role \in Roles
    /\ pc = "start"
    /\ current_oplog_size = Unbound
    /\ state = "Unbound"
    /\ result = [changed |-> FALSE]
    /\ calls = <<>>
    /\ exited = <<>>
    /\ failed = <<>>
    /\ run = 1
    /\ initialSize = maxSize
    /\ prev = NoRun

\* if not pymongo_found: module.fail_json(...)
CheckPymongo ==
    /\ pc = "start"
    /\ UNCHANGED <<params, check_mode, member, locals, calls, exited, history>>
    /\ \E pymongo_found \in BOOLEAN :
          IF pymongo_found
          THEN pc' = "connect" /\ UNCHANGED failed
          ELSE FailJson([fmt |-> "missing_required_lib", cause |-> "pymongo"])

\* client = MongoClient(**connection_params)
Connect ==
    /\ pc = "connect"
    /\ \/ /\ calls' = Append(calls, Returned("MongoClient"))
          /\ pc' = "credentials"
          /\ UNCHANGED failed
       \/ /\ calls' = Append(calls, Raised("MongoClient"))
          /\ \E c \in Causes :
                FailJson([fmt |-> "Unable to connect to MongoDB: %s", cause |-> c])
    /\ UNCHANGED <<params, check_mode, member, locals, exited, history>>

\* The position after the credentials are settled (line 189).
AfterCredentials(user, password) ==
    IF user # None /\ password # None THEN "authenticate" ELSE "exit"

\* Lines 181-189: credentials of the task, else of the mongocnf file.
Credentials ==
    /\ pc = "credentials"
    /\ UNCHANGED <<oplog_size_mb, compact, check_mode, arg_login_user,
                   arg_login_password, mongocnf_creds, member, locals, calls,
                   exited, history>>
    /\ IF login_user = None /\ login_password = None
       THEN /\ IF mongocnf_creds # "False"
               THEN login_user' = "user" /\ login_password' = "password"
               ELSE UNCHANGED <<login_user, login_password>>
            /\ pc' = AfterCredentials(login_user', login_password')
            /\ UNCHANGED failed
       ELSE IF login_password = None \/ login_user = None
       THEN /\ FailJson([fmt |-> "When supplying login arguments, both 'login_user' and 'login_password' must be provided",
                         cause |-> None])
            /\ UNCHANGED <<login_user, login_password>>
       ELSE /\ pc' = AfterCredentials(login_user, login_password)
            /\ UNCHANGED <<login_user, login_password, failed>>

\* client.admin.authenticate(login_user, login_password, source=login_database)
Authenticate ==
    /\ pc = "authenticate"
    /\ \/ /\ calls' = Append(calls, Returned("authenticate"))
          /\ pc' = "server_info"
          /\ UNCHANGED failed
       \/ /\ calls' = Append(calls, Raised("authenticate"))
          /\ \E c \in Causes :
                FailJson([fmt |-> "Unable to authenticate with MongoDB: %s", cause |-> c])
    /\ UNCHANGED <<params, check_mode, member, locals, exited, history>>

\* srv_version = LooseVersion(client.server_info()['version'])
ServerInfo ==
    /\ pc = "server_info"
    /\ \/ /\ calls' = Append(calls, Returned("server_info"))
          /\ pc' = "check_compatibility"
          /\ UNCHANGED failed
       \/ /\ calls' = Append(calls, Raised("server_info"))
          /\ \E c \in Causes :
                FailJson([fmt |-> "Unable to get MongoDB server version: %s", cause |-> c])
    /\ UNCHANGED <<params, check_mode, member, locals, exited, history>>

\* check_compatibility(module, srv_version, driver_version): fails the module
\* on an unsupported pair of versions; an exception it raises is reported by
\* the handler of line 202.
CheckCompatibility ==
    /\ pc = "check_compatibility"
    /\ UNCHANGED <<params, check_mode, member, locals, calls, exited, history>>
    /\ \/ pc' = "get_olplog_size" /\ UNCHANGED failed
       \/ FailJson([fmt |-> "check_compatibility", cause |-> "versions"])
       \/ \E c \in Causes :
             FailJson([fmt |-> "Unable to authenticate with MongoDB: %s", cause |-> c])

\* Slip: a failed read of the size is tried again before the run gives up.
GetOplogSize_Retry ==
    /\ pc = "get_olplog_size"
    /\ \/ /\ calls' = Append(calls, Returned("collStats"))
          /\ current_oplog_size' = get_olplog_size(maxSize)
          /\ IF SizeIsCurrent(oplog_size_mb, current_oplog_size')
             THEN /\ result' = SetItem(SetItem(result, "msg", AlreadyMsg(oplog_size_mb)),
                                       "compacted", FALSE)
                  /\ pc' = "exit"
             ELSE /\ result' = result
                  /\ pc' = "member_state"
          /\ UNCHANGED failed
       \/ /\ calls' = Append(calls, Raised("collStats"))
          /\ IF Len(calls) < 6
             THEN pc' = pc /\ UNCHANGED failed
             ELSE \E c \in Causes :
                     FailJson([fmt |-> "Unable to get current oplog size: %s", cause |-> c])
          /\ UNCHANGED <<current_oplog_size, result>>
    /\ UNCHANGED <<params, check_mode, member, state, exited, history>>

\* Lines 205-211: read the current size and compare it with the desired one.
GetOplogSize ==
    /\ pc = "get_olplog_size"
    /\ \/ /\ calls' = Append(calls, Returned("collStats"))
          /\ current_oplog_size' = get_olplog_size(maxSize)
          /\ IF SizeIsCurrent(oplog_size_mb, current_oplog_size')
             THEN /\ result' = SetItem(SetItem(result, "msg", AlreadyMsg(oplog_size_mb)),
                                       "compacted", FALSE)
                  /\ pc' = "exit"
             ELSE /\ result' = result
                  /\ pc' = "member_state"
          /\ UNCHANGED failed
       \/ /\ calls' = Append(calls, Raised("collStats"))
          /\ \E c \in Causes :
                FailJson([fmt |-> "Unable to get current oplog size: %s", cause |-> c])
          /\ UNCHANGED <<current_oplog_size, result>>
    /\ UNCHANGED <<params, check_mode, member, state, exited, history>>

\* Lines 213-224: read the member state; in check mode report and stop.
MemberState ==
    /\ pc = "member_state"
    /\ \/ /\ calls' = Append(calls, Returned("member_state"))
          /\ state' = role
          /\ IF check_mode
             THEN /\ \E from \in RoundOutcomes(current_oplog_size) :
                        result' = SetItem(SetItem(SetItem(result, "changed", TRUE),
                                                  "msg", ResizedMsg(from, oplog_size_mb)),
                                          "compacted", CheckModeCompacted(state', compact))
                  /\ pc' = "exit"
             ELSE /\ result' = result
                  /\ pc' = "set_oplog_size"
          /\ UNCHANGED failed
       \/ /\ calls' = Append(calls, Raised("member_state"))
          /\ \E c \in Causes :
                FailJson([fmt |-> "Unable to get member state: %s", cause |-> c])
          /\ UNCHANGED <<state, result>>
    /\ UNCHANGED <<params, check_mode, member, current_oplog_size, exited, history>>

\* Slip: a failed resize is swallowed and the run goes on to the compact
\* decision.
SetOplogSize_Swallow ==
    /\ pc = "set_oplog_size"
    /\ \/ /\ calls' = Append(calls, Returned("replSetResizeOplog"))
          /\ maxSize' = set_oplog_size(oplog_size_mb)
          /\ \E from \in RoundOutcomes(current_oplog_size) :
                LET resized == SetItem(SetItem(result, "changed", TRUE),
                                       "msg", ResizedMsg(from, oplog_size_mb))
                IN  IF ShouldCompact(state, compact, current_oplog_size, oplog_size_mb)
                    THEN result' = resized /\ pc' = "compact_oplog"
                    ELSE /\ result' = SetItem(resized, "compacted", FALSE)
                         /\ pc' = "exit"
          /\ UNCHANGED failed
       \/ /\ calls' = Append(calls, Raised("replSetResizeOplog"))
          /\ IF ShouldCompact(state, compact, current_oplog_size, oplog_size_mb)
             THEN result' = result /\ pc' = "compact_oplog"
             ELSE /\ result' = SetItem(result, "compacted", FALSE)
                  /\ pc' = "exit"
          /\ UNCHANGED <<maxSize, failed>>
    /\ UNCHANGED <<params, check_mode, role, current_oplog_size, state, exited, history>>

\* Lines 226-233 and 239-240: resize, then decide whether to compact.
SetOplogSize ==
    /\ pc = "set_oplog_size"
    /\ \/ /\ calls' = Append(calls, Returned("replSetResizeOplog"))
          /\ maxSize' = set_oplog_size(oplog_size_mb)
          /\ \E from \in RoundOutcomes(current_oplog_size) :
                LET resized == SetItem(SetItem(result, "changed", TRUE),
                                       "msg", ResizedMsg(from, oplog_size_mb))
                IN  IF ShouldCompact(state, compact, current_oplog_size, oplog_size_mb)
                    THEN result' = resized /\ pc' = "compact_oplog"
                    ELSE /\ result' = SetItem(resized, "compacted", FALSE)
                         /\ pc' = "exit"
          /\ UNCHANGED failed
       \/ /\ calls' = Append(calls, Raised("replSetResizeOplog"))
          /\ \E c \in Causes :
                FailJson([fmt |-> "Unable to set oplog size: %s", cause |-> c])
          /\ UNCHANGED <<maxSize, result>>
    /\ UNCHANGED <<params, check_mode, role, current_oplog_size, state, exited, history>>

\* Slip: the result of a successful compact is recorded as compacted=False.
CompactOplog_NotRecorded ==
    /\ pc = "compact_oplog"
    /\ \/ /\ calls' = Append(calls, Returned("compact"))
          /\ result' = SetItem(result, "compacted", FALSE)
          /\ pc' = "exit"
          /\ UNCHANGED failed
       \/ /\ calls' = Append(calls, Raised("compact"))
          /\ \E c \in Causes :
                FailJson([fmt |-> "Error compacting member oplog: %s", cause |-> c])
          /\ UNCHANGED result
    /\ UNCHANGED <<params, check_mode, member, current_oplog_size, state, exited, history>>

\* Lines 234-238: compact local.oplog.rs.
CompactOplog ==
    /\ pc = "compact_oplog"
    /\ \/ /\ calls' = Append(calls, Returned("compact"))
          /\ result' = SetItem(result, "compacted", TRUE)
          /\ pc' = "exit"
          /\ UNCHANGED failed
       \/ /\ calls' = Append(calls, Raised("compact"))
          /\ \E c \in Causes :
                FailJson([fmt |-> "Error compacting member oplog: %s", cause |-> c])
          /\ UNCHANGED result
    /\ UNCHANGED <<params, check_mode, member, current_oplog_size, state, exited, history>>

\* The task is run again on the same member with the same arguments, with or
\* without --check.
NextRun ==
    /\ pc = "done"
    /\ run < MaxRuns
    /\ prev' = [run |-> run, check_mode |-> check_mode, calls |-> calls,
                exited |-> exited, failed |-> failed,
                current_oplog_size |-> current_oplog_size, state |-> state,
                initialSize |-> initialSize]
    /\ run' = run + 1
    /\ initialSize' = maxSize
    /\ check_mode' \in BOOLEAN
    /\ pc' = "start"
    /\ current_oplog_size' = Unbound
    /\ state' = "Unbound"
    /\ result' = [changed |-> FALSE]
    /\ calls' = <<>>
    /\ exited' = <<>>
    /\ failed' = <<>>
    /\ login_user' = arg_login_user
    /\ login_password' = arg_login_password
    /\ UNCHANGED <<oplog_size_mb, compact, arg_login_user, arg_login_password,
                   mongocnf_creds, maxSize, role>>

Next ==
    \/ CheckPymongo
    \/ Connect
    \/ Credentials
    \/ Authenticate
    \/ ServerInfo
    \/ CheckCompatibility
    \/ GetOplogSize
    \/ MemberState
    \/ SetOplogSize
    \/ CompactOplog
    \/ ExitJson
    \/ NextRun

Spec == Init /\ [][Next]_vars
------------------------------------------------------------------------------
\* Vocabulary of the properties.

Invoked(op) == \E i \in 1..Len(calls) : calls[i].op = op
Count(op) == Cardinality({i \in 1..Len(calls) : calls[i].op = op})
OpSucceeded(op) == \E i \in 1..Len(calls) : calls[i] = Returned(op)
Reported(fmt) == \E i \in 1..Len(failed) : failed[i].msg.fmt = fmt
Before(a, b) ==
    \E i, j \in 1..Len(calls) : i < j /\ calls[i].op = a /\ calls[j].op = b

SizeRead == current_oplog_size # Unbound
RoleRead == state # "Unbound"
DesiredBytes == oplog_size_mb * 1024 * 1024
ReadEqual == SizeRead /\ current_oplog_size.num = DesiredBytes
ReadDiffers == SizeRead /\ current_oplog_size.num # DesiredBytes
ReadLarger == SizeRead /\ current_oplog_size.num > DesiredBytes
ResizeSucceeded == OpSucceeded("replSetResizeOplog")
CompactSucceeded == OpSucceeded("compact")
Succeeded == pc = "done" /\ Len(exited) = 1 /\ failed = <<>>
AllFields == {"changed", "compacted", "msg"}
------------------------------------------------------------------------------
\* C1: a run that reads a current size equal to oplog_size_mb stops right
\* after the comparison: it issues neither replSetResizeOplog nor compact,
\* signals no failure, and exits with changed=False, compacted=False and the
\* message "oplog_size_mb is already <N> mb", whatever compact, check_mode
\* and the member role are.
C1_NoopWhenEqual ==
    ReadEqual =>
        /\ ~Invoked("replSetResizeOplog")
        /\ ~Invoked("compact")
        /\ failed = <<>>
        /\ pc \in {"exit", "done"}
        /\ result = [changed |-> FALSE, compacted |-> FALSE,
                     msg |-> AlreadyMsg(oplog_size_mb)]
        /\ pc = "done" => Len(exited) = 1 /\ exited[1].result = result

C1_Witness ==
    /\ Succeeded
    /\ ReadEqual
    /\ oplog_size_mb > 0
    /\ compact /\ ~check_mode /\ role = "SECONDARY"

\* C2: a check-mode run that read a size different from oplog_size_mb and
\* read the member state exits with changed=True and
\* compacted = (role is SECONDARY and compact), and never issues
\* replSetResizeOplog or compact.
C2_CheckModeReportsWithoutWriting ==
    (check_mode /\ ReadDiffers /\ RoleRead) =>
        /\ ~Invoked("replSetResizeOplog")
        /\ ~Invoked("compact")
        /\ maxSize = initialSize
        /\ failed = <<>>
        /\ pc \in {"exit", "done"}
        /\ DOMAIN result = AllFields
        /\ result.changed = TRUE
        /\ result.compacted = (role = "SECONDARY" /\ compact)
        /\ pc = "done" => Len(exited) = 1 /\ exited[1].result = result

C2_Witness ==
    /\ Succeeded
    /\ check_mode /\ ReadDiffers /\ RoleRead
    /\ role = "ARBITER" /\ compact
    /\ exited[1].result.compacted = FALSE

\* C3: compact is issued only when the member is SECONDARY, compact is set,
\* the size read is strictly greater than oplog_size_mb and
\* replSetResizeOplog was issued and succeeded; and once the run is past the
\* compact decision it has been issued whenever these four hold. A growing
\* resize on a SECONDARY with compact set exits with compacted=False.
C3_CompactGuard ==
    LET guard == /\ role = "SECONDARY"
                 /\ compact
                 /\ ReadLarger
                 /\ ResizeSucceeded
    IN  /\ Invoked("compact") => guard
        /\ pc \in {"exit", "done"} => (Invoked("compact") <=> guard)
        /\ (Succeeded /\ ResizeSucceeded /\ ~ReadLarger) =>
               exited[1].result.compacted = FALSE

C3_Witness ==
    /\ Succeeded
    /\ role = "SECONDARY" /\ compact /\ ReadDiffers /\ ~ReadLarger
    /\ ResizeSucceeded
    /\ ~Invoked("compact")
\* C4: two runs in a row with the same arguments, neither in check mode and
\* neither signalling a failure, on a member whose size differed from
\* oplog_size_mb before the first: the first exits with changed=True, the
\* second with changed=False and without issuing replSetResizeOplog or
\* compact.
C4_Idempotence ==
    (/\ pc = "done"
     /\ prev # NoRun
     /\ ~prev.check_mode /\ ~check_mode
     /\ prev.initialSize # DesiredBytes
     /\ prev.failed = <<>> /\ failed = <<>>)
    => /\ Len(prev.exited) = 1 /\ prev.exited[1].result.changed = TRUE
       /\ Len(exited) = 1 /\ exited[1].result.changed = FALSE
       /\ ~Invoked("replSetResizeOplog")
       /\ ~Invoked("compact")

\* C5: compact is issued only after replSetResizeOplog was issued and
\* succeeded; a failed resize ends the run with "Unable to set oplog size"
\* and without a compact; "Error compacting member oplog" is only reported
\* by a run whose resize succeeded.
C5_CompactOnlyAfterResize ==
    /\ Invoked("compact") =>
          Before("replSetResizeOplog", "compact") /\ ResizeSucceeded
    /\ (Invoked("replSetResizeOplog") /\ ~ResizeSucceeded) =>
          /\ pc = "done"
          /\ ~Invoked("compact")
          /\ exited = <<>>
          /\ Len(failed) = 1
          /\ Reported("Unable to set oplog size: %s")
          /\ calls[Len(calls)].op = "replSetResizeOplog"
    /\ Reported("Error compacting member oplog: %s") =>
          Before("replSetResizeOplog", "compact") /\ ResizeSucceeded

C5_Witness ==
    /\ pc = "done"
    /\ Reported("Error compacting member oplog: %s")
    /\ maxSize = DesiredBytes /\ initialSize > DesiredBytes

\* A step of the current run.
RunStep ==
    \/ CheckPymongo \/ Connect \/ Credentials \/ Authenticate \/ ServerInfo
    \/ CheckCompatibility \/ GetOplogSize \/ MemberState \/ SetOplogSize
    \/ CompactOplog \/ ExitJson

\* C6: a run that has ended emitted exactly one outcome, a result or a
\* failure; a run that has not ended emitted none and can take a step; and no
\* collaborator call is issued after a failure.
C6_ExactlyOneOutcome ==
    /\ pc = "done" => Len(exited) + Len(failed) = 1
    /\ pc # "done" => Len(exited) + Len(failed) = 0 /\ ENABLED RunStep
    /\ \A i \in 1..Len(failed) : failed[i].at = Len(calls)
    /\ \A i \in 1..Len(exited) : exited[i].at = Len(calls)

C6_Witness ==
    /\ pc = "done"
    /\ exited = <<>>
    /\ Len(failed) = 1
    /\ failed[1].msg.fmt = "Error compacting member oplog: %s"
    /\ Len(calls) = 7

\* C7: every result passed to exit_json carries changed, compacted and msg.
C7_ResultHasAllFields ==
    \A i \in 1..Len(exited) : DOMAIN exited[i].result = AllFields

\* C8: a check-mode run followed by a run without check mode on the same
\* member with the same arguments, both exiting with a result after reading
\* the same size and member state: the two results have the same changed and
\* the same compacted.
C8_CheckModePredicts ==
    (/\ Succeeded
     /\ prev # NoRun
     /\ prev.check_mode /\ ~check_mode
     /\ Len(prev.exited) = 1 /\ prev.failed = <<>>
     /\ RoleRead
     /\ prev.state = state
     /\ prev.current_oplog_size = current_oplog_size)
    => /\ prev.exited[1].result.changed = exited[1].result.changed
       /\ prev.exited[1].result.compacted = exited[1].result.compacted

\* C9: collStats, member_state, replSetResizeOplog and compact are each
\* issued at most once in a run; member_state only after a collStats that
\* succeeded and returned a size different from oplog_size_mb; a failed read
\* ends the run with its message, is not repeated and is followed by no
\* other call.
C9_ReadsOnceInOrder ==
    /\ \A op \in {"collStats", "member_state", "replSetResizeOplog", "compact"} :
          Count(op) <= 1
    /\ Invoked("member_state") =>
          Before("collStats", "member_state") /\ ReadDiffers
    /\ \A op \in {"replSetResizeOplog", "compact"} :
          Invoked(op) => Before("member_state", op) /\ RoleRead
    /\ (Invoked("collStats") /\ ~SizeRead) =>
          /\ pc = "done" /\ exited = <<>> /\ Len(failed) = 1
          /\ Reported("Unable to get current oplog size: %s")
          /\ calls[Len(calls)].op = "collStats"
    /\ (Invoked("member_state") /\ ~RoleRead) =>
          /\ pc = "done" /\ exited = <<>> /\ Len(failed) = 1
          /\ Reported("Unable to get member state: %s")
          /\ calls[Len(calls)].op = "member_state"

C9_Witness ==
    /\ pc = "done"
    /\ Reported("Unable to get member state: %s")
    /\ SizeRead /\ ~RoleRead
    /\ ~check_mode

\* C10: a run without check mode that exits with a result reports
\* changed=True exactly when replSetResizeOplog was issued and succeeded, and
\* compacted=True exactly when compact was issued and succeeded.
C10_ResultReflectsWrites ==
    (Succeeded /\ ~check_mode) =>
        LET r == exited[1].result
        IN  /\ r.changed = ResizeSucceeded
            /\ ("compacted" \in DOMAIN r /\ r.compacted) = CompactSucceeded
            /\ r.changed = (maxSize # initialSize)

C10_Witness ==
    /\ Succeeded /\ ~check_mode
    /\ exited[1].result.changed = TRUE
    /\ exited[1].result.compacted = TRUE
    /\ Invoked("compact")
====
